---- MODULE Spec2Model ----
(***************************************************************************)
(* parallel-future: ParallelFuture<Fut> (src/src/lib.rs) wraps the         *)
(* JoinHandle of a task spawned on the async-std executor.  The model has  *)
(* one caller thread running one of the programs of the test-suite and the *)
(* spec's scenarios, and the executor's workers running the spawned tasks  *)
(* in parallel with it.                                                    *)
(*                                                                         *)
(* The executor itself is an external collaborator.  Its cancel is         *)
(* best-effort: after a cancel request a task that has not completed may   *)
(* be stopped, or may keep running to completion.                          *)
(***************************************************************************)
EXTENDS Integers, Sequences, FiniteSets

\* Number of ParallelFutures a join / race composes.
NumHandles == 2
\* Outputs of the wrapped computations range over 0..MaxValue.
MaxValue == 2
\* Pending polls the caller makes of one handle.
MaxPolls == 2

Handles == 1..NumHandles
Values  == 0..MaxValue

\* The caller programs: `x.par().await` (await), `(a, b).join().await`
\* (join), a race of the handles (race), the is_lazy test (lazy),
\* `h = x.par(); drop(h); check flag` (drop) and the crate doc's "polled
\* once and then passed to mem::forget" (forget).
Modes == {"await", "join", "race", "lazy", "drop", "forget"}

VARIABLES
    mode,       \* the program the caller runs
    pc,         \* the caller's position in it
    ph,         \* per handle: "uncreated", "alive", "dropped", "forgotten"
    slot,       \* ParallelFuture.handle: "Some" or "None"
    task,       \* executor's task: "none","scheduled","running","completed","cancelled"
    value,      \* the value the wrapped computation produces
    output,     \* the task's recorded output: <<>> or <<v>>
    flag,       \* the side effect of the computation (it sets a shared flag)
    spawned,    \* number of task::spawn calls made for the computation
    cancelReq,  \* number of JoinHandle::cancel calls made for the task
    takenByPoll,\* times poll moved the JoinHandle out of the slot
    takenByDrop,\* times drop moved the JoinHandle out of the slot
    polls,      \* number of polls of the handle
    result,     \* what the last poll returned: "none", "pending", "ready"
    got,        \* the output delivered to the caller by poll: <<>> or <<v>>
    waker,      \* the caller's waker is registered with the task
    woken,      \* the task has woken the caller
    out,        \* the value of the caller's await expression: <<>> until resolved
    seen,       \* the caller's reading of the flag: <<>> or <<b>>
    panicked    \* an unwrap() hit None

vars == <<mode, pc, ph, slot, task, value, output, flag, spawned, cancelReq,
          takenByPoll, takenByDrop, polls, result, got, waker, woken, out,
          seen, panicked>>

execVars   == <<task, output, flag, woken>>
callerVars == <<mode, pc, ph, slot, value, spawned, cancelReq, takenByPoll,
                takenByDrop, polls, result, got, waker, out, seen, panicked>>

\* Number of handles the caller's program creates.
Want(m) == IF m \in {"join", "race"} THEN NumHandles ELSE 1

\* Where the caller goes once its handles are created.
AfterSpawn(m) ==
    CASE m \in {"await", "join", "race", "forget"} -> "drive"
      [] m = "lazy" -> "sleep"
      [] m = "drop" -> "cleanup"

Init ==
    /\ mode \in Modes
    /\ pc = "spawn"
    /\ ph = [h \in Handles |-> "uncreated"]
    /\ slot = [h \in Handles |-> "None"]
    /\ task = [h \in Handles |-> "none"]
    /\ value = [h \in Handles |-> 0]
    /\ output = [h \in Handles |-> <<>>]
    /\ flag = [h \in Handles |-> FALSE]
    /\ spawned = [h \in Handles |-> 0]
    /\ cancelReq = [h \in Handles |-> 0]
    /\ takenByPoll = [h \in Handles |-> 0]
    /\ takenByDrop = [h \in Handles |-> 0]
    /\ polls = [h \in Handles |-> 0]
    /\ result = [h \in Handles |-> "none"]
    /\ got = [h \in Handles |-> <<>>]
    /\ waker = [h \in Handles |-> FALSE]
    /\ woken = [h \in Handles |-> FALSE]
    /\ out = <<>>
    /\ seen = <<>>
    /\ panicked = FALSE

-----------------------------------------------------------------------------
(* The combinators that drive the handles.                                  *)

\* `x.par().await` resolves when the poll of its handle returns Ready.
AwaitResolved(res) == res[1] = "ready"

JoinResolved_Any(res) == \E h \in Handles : res[h] = "ready"
\* `(a, b).join().await` resolves when every branch has returned Ready.
JoinResolved(res) == \A h \in Handles : res[h] = "ready"

\* A race resolves on the first branch whose poll returns Ready.
RaceResolved(res) == \E h \in Handles : res[h] = "ready"

Resolved(m, res) ==
    CASE m = "await" -> AwaitResolved(res)
      [] m = "join"  -> JoinResolved(res)
      [] m = "race"  -> RaceResolved(res)
      [] OTHER       -> FALSE

\* Where the caller goes after a poll: the forget program polls once; the
\* others drive their handles until the await expression resolves.
AfterPoll(m, res) ==
    IF m = "forget" THEN "forget"
    ELSE IF Resolved(m, res) THEN "cleanup" ELSE "drive"

\* The caller polls a handle when it first reaches it, and afterwards only
\* when a waker it registered has woken it.
CanPoll(h) == result[h] = "none" \/ \E g \in Handles : woken[g]

\* The value of the await expression when the poll of h resolves it: the
\* handle's output <<v>>, or for a join the tuple of the branches' outputs,
\* each in its branch's position.
OutOf(m, h, g) ==
    IF m = "join" THEN g ELSE g[h]

-----------------------------------------------------------------------------
(* IntoFutureExt::par                                                       *)

Par_Lazy(h, v) ==
    /\ pc = "spawn"
    /\ h <= Want(mode)
    /\ ph[h] = "uncreated"
    /\ \A g \in Handles : g < h => ph[g] # "uncreated"
    /\ mode \in {"join", "race"} => v = h
    /\ value' = [value EXCEPT ![h] = v]
    /\ slot' = [slot EXCEPT ![h] = "Some"]
    /\ ph' = [ph EXCEPT ![h] = "alive"]
    /\ pc' = IF h = Want(mode) THEN AfterSpawn(mode) ELSE "spawn"
    /\ UNCHANGED <<mode, task, spawned, output, flag, cancelReq, takenByPoll,
                   takenByDrop, polls, result, got, waker, woken, out, seen,
                   panicked>>

\* par(): ParallelFuture { handle: Some(task::spawn(self.into_future())) }.
\* The computation, which produces v, is handed to the executor here.
\* The branches of a join or a race are async { 1 }, async { 2 }, ...; the
\* computation of a lone handle produces any value.
Par(h, v) ==
    /\ pc = "spawn"
    /\ h <= Want(mode)
    /\ ph[h] = "uncreated"
    /\ \A g \in Handles : g < h => ph[g] # "uncreated"
    /\ mode \in {"join", "race"} => v = h
    /\ value' = [value EXCEPT ![h] = v]
    /\ task' = [task EXCEPT ![h] = "scheduled"]
    /\ spawned' = [spawned EXCEPT ![h] = @ + 1]
    /\ slot' = [slot EXCEPT ![h] = "Some"]
    /\ ph' = [ph EXCEPT ![h] = "alive"]
    /\ pc' = IF h = Want(mode) THEN AfterSpawn(mode) ELSE "spawn"
    /\ UNCHANGED <<mode, output, flag, cancelReq, takenByPoll, takenByDrop,
                   polls, result, got, waker, woken, out, seen, panicked>>

-----------------------------------------------------------------------------
(* The executor's workers.                                                  *)

\* A worker starts the computation: its side effect happens.
WorkerRun(h) ==
    /\ task[h] = "scheduled"
    /\ task' = [task EXCEPT ![h] = "running"]
    /\ flag' = [flag EXCEPT ![h] = TRUE]
    /\ UNCHANGED <<output, woken>>
    /\ UNCHANGED callerVars

WorkerFinish_Zero(h) ==
    /\ task[h] = "running"
    /\ task' = [task EXCEPT ![h] = "completed"]
    /\ output' = [output EXCEPT ![h] = <<0>>]
    /\ woken' = [woken EXCEPT ![h] = waker[h]]
    /\ UNCHANGED flag
    /\ UNCHANGED callerVars

WorkerFinish_InOrder(h) ==
    /\ task[h] = "running"
    /\ \A g \in Handles : g < h => task[g] \notin {"scheduled", "running"}
    /\ task' = [task EXCEPT ![h] = "completed"]
    /\ output' = [output EXCEPT ![h] = <<value[h]>>]
    /\ woken' = [woken EXCEPT ![h] = waker[h]]
    /\ UNCHANGED flag
    /\ UNCHANGED callerVars

WorkerFinish_NoWake(h) ==
    /\ task[h] = "running"
    /\ task' = [task EXCEPT ![h] = "completed"]
    /\ output' = [output EXCEPT ![h] = <<value[h]>>]
    /\ UNCHANGED <<flag, woken>>
    /\ UNCHANGED callerVars

\* The computation returns: its value is recorded as the task's output and
\* a registered waker is woken.
WorkerFinish(h) ==
    /\ task[h] = "running"
    /\ task' = [task EXCEPT ![h] = "completed"]
    /\ output' = [output EXCEPT ![h] = <<value[h]>>]
    /\ woken' = [woken EXCEPT ![h] = waker[h]]
    /\ UNCHANGED flag
    /\ UNCHANGED callerVars

WorkerCancel_AnyState(h) ==
    /\ cancelReq[h] > 0
    /\ task[h] \in {"scheduled", "running", "completed"}
    /\ task' = [task EXCEPT ![h] = "cancelled"]
    /\ UNCHANGED <<output, flag, woken>>
    /\ UNCHANGED callerVars

\* A cancel request takes effect on a task that has not completed.
WorkerCancel(h) ==
    /\ cancelReq[h] > 0
    /\ task[h] \in {"scheduled", "running"}
    /\ task' = [task EXCEPT ![h] = "cancelled"]
    /\ UNCHANGED <<output, flag, woken>>
    /\ UNCHANGED callerVars

-----------------------------------------------------------------------------
(* Future for ParallelFuture                                                *)

PollPending_Take(h) ==
    /\ pc = "drive"
    /\ ph[h] = "alive"
    /\ result[h] # "ready"
    /\ CanPoll(h)
    /\ polls[h] < MaxPolls
    /\ task[h] # "completed"
    /\ IF slot[h] = "Some"
       THEN /\ polls' = [polls EXCEPT ![h] = @ + 1]
            /\ result' = [result EXCEPT ![h] = "pending"]
            /\ waker' = [waker EXCEPT ![h] = TRUE]
            /\ slot' = [slot EXCEPT ![h] = "None"]
            /\ takenByPoll' = [takenByPoll EXCEPT ![h] = @ + 1]
            /\ pc' = AfterPoll(mode, result')
            /\ UNCHANGED panicked
       ELSE /\ panicked' = TRUE
            /\ UNCHANGED <<polls, result, waker, pc, slot, takenByPoll>>
    /\ UNCHANGED <<mode, ph, value, spawned, cancelReq, takenByDrop, got, out,
                   seen>>
    /\ UNCHANGED execVars

\* poll, the JoinHandle reporting not-yet-ready: the caller's waker is
\* registered and Pending returned.  this.handle.as_pin_mut().unwrap()
\* panics on an empty slot.
PollPending(h) ==
    /\ pc = "drive"
    /\ ph[h] = "alive"
    /\ result[h] # "ready"
    /\ CanPoll(h)
    /\ polls[h] < MaxPolls
    /\ task[h] # "completed"
    /\ IF slot[h] = "Some"
       THEN /\ polls' = [polls EXCEPT ![h] = @ + 1]
            /\ result' = [result EXCEPT ![h] = "pending"]
            /\ waker' = [waker EXCEPT ![h] = TRUE]
            /\ pc' = AfterPoll(mode, result')
            /\ UNCHANGED panicked
       ELSE /\ panicked' = TRUE
            /\ UNCHANGED <<polls, result, waker, pc>>
    /\ UNCHANGED <<mode, ph, slot, value, spawned, cancelReq, takenByPoll,
                   takenByDrop, got, out, seen>>
    /\ UNCHANGED execVars

PollReady_CancelOnReady(h) ==
    /\ pc = "drive"
    /\ ph[h] = "alive"
    /\ result[h] # "ready"
    /\ CanPoll(h)
    /\ task[h] = "completed"
    /\ polls' = [polls EXCEPT ![h] = @ + 1]
    /\ result' = [result EXCEPT ![h] = "ready"]
    /\ got' = [got EXCEPT ![h] = output[h]]
    /\ cancelReq' = [cancelReq EXCEPT ![h] = @ + 1]
    /\ pc' = AfterPoll(mode, result')
    /\ out' = IF Resolved(mode, result') THEN OutOf(mode, h, got') ELSE out
    /\ UNCHANGED <<mode, ph, slot, value, spawned, takenByPoll, takenByDrop,
                   waker, seen, panicked>>
    /\ UNCHANGED execVars

PollReady_Take(h) ==
    /\ pc = "drive"
    /\ ph[h] = "alive"
    /\ result[h] # "ready"
    /\ CanPoll(h)
    /\ task[h] = "completed"
    /\ IF slot[h] = "Some"
       THEN /\ polls' = [polls EXCEPT ![h] = @ + 1]
            /\ result' = [result EXCEPT ![h] = "ready"]
            /\ got' = [got EXCEPT ![h] = output[h]]
            /\ slot' = [slot EXCEPT ![h] = "None"]
            /\ takenByPoll' = [takenByPoll EXCEPT ![h] = @ + 1]
            /\ pc' = AfterPoll(mode, result')
            /\ out' = IF Resolved(mode, result') THEN OutOf(mode, h, got')
                                                 ELSE out
            /\ UNCHANGED panicked
       ELSE /\ panicked' = TRUE
            /\ UNCHANGED <<polls, result, got, pc, out, slot, takenByPoll>>
    /\ UNCHANGED <<mode, ph, value, spawned, cancelReq, takenByDrop, waker,
                   seen>>
    /\ UNCHANGED execVars

\* poll, the JoinHandle reporting completion: Ready(output) is returned to
\* the caller.  The slot is borrowed (as_pin_mut), not taken: it stays Some.
PollReady(h) ==
    /\ pc = "drive"
    /\ ph[h] = "alive"
    /\ result[h] # "ready"
    /\ CanPoll(h)
    /\ task[h] = "completed"
    /\ IF slot[h] = "Some"
       THEN /\ polls' = [polls EXCEPT ![h] = @ + 1]
            /\ result' = [result EXCEPT ![h] = "ready"]
            /\ got' = [got EXCEPT ![h] = output[h]]
            /\ pc' = AfterPoll(mode, result')
            /\ out' = IF Resolved(mode, result') THEN OutOf(mode, h, got')
                                                 ELSE out
            /\ UNCHANGED panicked
       ELSE /\ panicked' = TRUE
            /\ UNCHANGED <<polls, result, got, pc, out>>
    /\ UNCHANGED <<mode, ph, slot, value, spawned, cancelReq, takenByPoll,
                   takenByDrop, waker, seen>>
    /\ UNCHANGED execVars

-----------------------------------------------------------------------------
(* PinnedDrop for ParallelFuture                                            *)

\* The caller's position once h is destroyed.
AfterDrop(h) ==
    IF \A g \in Handles \ {h} : ph[g] # "alive"
    THEN (IF mode = "drop" THEN "check" ELSE "done")
    ELSE "cleanup"

Drop_NoCancel(h) ==
    /\ pc = "cleanup"
    /\ ph[h] = "alive"
    /\ ph' = [ph EXCEPT ![h] = "dropped"]
    /\ pc' = AfterDrop(h)
    /\ slot' = [slot EXCEPT ![h] = "None"]
    /\ takenByDrop' = [takenByDrop EXCEPT ![h] = @ + 1]
    /\ UNCHANGED <<mode, value, spawned, cancelReq, takenByPoll, polls, result,
                   got, waker, out, seen, panicked>>
    /\ UNCHANGED execVars

Drop_NoTake(h) ==
    /\ pc = "cleanup"
    /\ ph[h] = "alive"
    /\ ph' = [ph EXCEPT ![h] = "dropped"]
    /\ pc' = AfterDrop(h)
    /\ cancelReq' = [cancelReq EXCEPT ![h] = @ + 1]
    /\ UNCHANGED <<mode, slot, value, spawned, takenByDrop, takenByPoll, polls,
                   result, got, waker, out, seen, panicked>>
    /\ UNCHANGED execVars

Drop_CancelIfPolled(h) ==
    /\ pc = "cleanup"
    /\ ph[h] = "alive"
    /\ ph' = [ph EXCEPT ![h] = "dropped"]
    /\ pc' = AfterDrop(h)
    /\ slot' = [slot EXCEPT ![h] = "None"]
    /\ takenByDrop' = [takenByDrop EXCEPT ![h] = @ + 1]
    /\ cancelReq' = [cancelReq EXCEPT ![h] = IF polls[h] > 0 THEN @ + 1 ELSE @]
    /\ UNCHANGED <<mode, value, spawned, takenByPoll, polls, result, got,
                   waker, out, seen, panicked>>
    /\ UNCHANGED execVars

Drop_CancelAll(h) ==
    /\ pc = "cleanup"
    /\ ph[h] = "alive"
    /\ ph' = [ph EXCEPT ![h] = "dropped"]
    /\ pc' = AfterDrop(h)
    /\ slot' = [slot EXCEPT ![h] = "None"]
    /\ takenByDrop' = [takenByDrop EXCEPT ![h] = @ + 1]
    /\ cancelReq' = [g \in Handles |->
                        IF g = h \/ ph[g] = "alive" THEN cancelReq[g] + 1
                                                    ELSE cancelReq[g]]
    /\ UNCHANGED <<mode, value, spawned, takenByPoll, polls, result, got,
                   waker, out, seen, panicked>>
    /\ UNCHANGED execVars

Drop_WaitsForTask(h) ==
    /\ pc = "cleanup"
    /\ ph[h] = "alive"
    /\ task[h] # "running"
    /\ ph' = [ph EXCEPT ![h] = "dropped"]
    /\ pc' = AfterDrop(h)
    /\ slot' = [slot EXCEPT ![h] = "None"]
    /\ takenByDrop' = [takenByDrop EXCEPT ![h] = @ + 1]
    /\ cancelReq' = [cancelReq EXCEPT ![h] = @ + 1]
    /\ UNCHANGED <<mode, value, spawned, takenByPoll, polls, result, got,
                   waker, out, seen, panicked>>
    /\ UNCHANGED execVars

\* drop: this.handle.take().unwrap() moves the JoinHandle out of the slot
\* (panicking if the slot is empty) and handle.cancel() requests the
\* cancellation of its task, whatever the task's state.
Drop(h) ==
    /\ pc = "cleanup"
    /\ ph[h] = "alive"
    /\ ph' = [ph EXCEPT ![h] = "dropped"]
    /\ pc' = AfterDrop(h)
    /\ IF slot[h] = "Some"
       THEN /\ slot' = [slot EXCEPT ![h] = "None"]
            /\ takenByDrop' = [takenByDrop EXCEPT ![h] = @ + 1]
            /\ cancelReq' = [cancelReq EXCEPT ![h] = @ + 1]
            /\ UNCHANGED panicked
       ELSE /\ panicked' = TRUE
            /\ UNCHANGED <<slot, takenByDrop, cancelReq>>
    /\ UNCHANGED <<mode, value, spawned, takenByPoll, polls, result, got,
                   waker, out, seen>>
    /\ UNCHANGED execVars

-----------------------------------------------------------------------------
(* mem::forget                                                              *)

Forget_RunsDrop(h) ==
    /\ pc = "forget"
    /\ ph[h] = "alive"
    /\ ph' = [ph EXCEPT ![h] = "forgotten"]
    /\ pc' = "done"
    /\ cancelReq' = [cancelReq EXCEPT ![h] = @ + 1]
    /\ UNCHANGED <<mode, slot, value, spawned, takenByPoll, takenByDrop, polls,
                   result, got, waker, out, seen, panicked>>
    /\ UNCHANGED execVars

\* mem::forget(h): the ParallelFuture goes out of the caller's hands without
\* its destructor running, so the slot keeps the JoinHandle and no cancel
\* is requested.
Forget(h) ==
    /\ pc = "forget"
    /\ ph[h] = "alive"
    /\ ph' = [ph EXCEPT ![h] = "forgotten"]
    /\ pc' = "done"
    /\ UNCHANGED <<mode, slot, value, spawned, cancelReq, takenByPoll,
                   takenByDrop, polls, result, got, waker, out, seen, panicked>>
    /\ UNCHANGED execVars

-----------------------------------------------------------------------------
(* The caller reads the flag the computation sets.                          *)

\* is_lazy reads the flag after its sleep, with the handle still alive; the
\* drop scenario reads it right after the drop.
ReadFlag ==
    /\ pc \in {"sleep", "check"}
    /\ seen' = <<flag[1]>>
    /\ pc' = IF pc = "sleep" THEN "cleanup" ELSE "done"
    /\ UNCHANGED <<mode, ph, slot, value, spawned, cancelReq, takenByPoll,
                   takenByDrop, polls, result, got, waker, out, panicked>>
    /\ UNCHANGED execVars

-----------------------------------------------------------------------------

Next ==
    \/ \E h \in Handles, v \in Values \cup Handles : Par(h, v)
    \/ \E h \in Handles : WorkerRun(h)
    \/ \E h \in Handles : WorkerFinish(h)
    \/ \E h \in Handles : WorkerCancel(h)
    \/ \E h \in Handles : PollPending(h)
    \/ \E h \in Handles : PollReady(h)
    \/ \E h \in Handles : Drop(h)
    \/ \E h \in Handles : Forget(h)
    \/ ReadFlag

Spec == Init /\ [][Next]_vars

\* Fair scheduling: a worker that can start or finish a task eventually
\* does, and a caller that can get Ready from a poll eventually polls.
FairSpec ==
    /\ Spec
    /\ \A h \in Handles : WF_vars(WorkerRun(h))
    /\ \A h \in Handles : WF_vars(WorkerFinish(h))
    /\ \A h \in Handles : WF_vars(PollReady(h))

-----------------------------------------------------------------------------
(* Properties.                                                              *)

\* C1: a ParallelFuture dropped before any poll of it returned Ready
\* (polled Pending, or never polled) has exactly one cancel request issued
\* for its task, and no output of the task is delivered through it.
C1_EarlyDropCancelsOnce ==
    \A h \in Handles :
        (ph[h] = "dropped" /\ result[h] # "ready") =>
            (cancelReq[h] = 1 /\ got[h] = <<>>)

\* C1 witness: a handle dropped unready whose task went on to record an
\* output that was never delivered.
C1_Witness ==
    \E h \in Handles :
        /\ ph[h] = "dropped" /\ result[h] # "ready"
        /\ task[h] = "completed" /\ output[h] # <<>>
        /\ cancelReq[h] = 1 /\ got[h] = <<>>

C3_ResultFidelity ==
    /\ \A h \in Handles : result[h] = "ready" => got[h] = <<value[h]>>
    /\ (mode = "await" /\ pc \in {"cleanup", "done"}) => out = <<value[1]>>

\* C3 witness: a direct await that resolved to a non-default value after
\* the caller had been suspended on a Pending poll.
C3_Witness ==
    /\ mode = "await" /\ pc = "cleanup"
    /\ value[1] = MaxValue /\ out = <<MaxValue>>
    /\ polls[1] > 1

\* C4: the join of par(async{1}) and par(async{2}) resolves to the outputs
\* in positional order (1, 2), sum 3, and only once every task has
\* completed; before that it has no value.
C4_JoinPositional ==
    mode = "join" =>
        IF pc \in {"cleanup", "done"}
        THEN /\ out[1] = <<1>> /\ out[2] = <<2>>
             /\ out[1][1] + out[2][1] = 3
             /\ \A h \in Handles : task[h] = "completed"
        ELSE out = <<>>

\* C4 witness: a join that resolved although its second branch was Ready
\* at its first poll while its first branch had first returned Pending.
C4_Witness ==
    /\ mode = "join" /\ pc = "cleanup"
    /\ out[1] = <<1>> /\ out[2] = <<2>>
    /\ polls[1] = 2 /\ polls[2] = 1

\* C5 (as stated): the computation of a handle that is kept alive and never
\* polled does not run: the caller of is_lazy reads the flag as false.
C5_LazyStart ==
    (mode = "lazy" /\ seen # <<>>) => seen = <<FALSE>>

C7_DropUnpolledFlagFalse ==
    (mode = "drop" /\ seen # <<>>) => seen = <<FALSE>>

\* C8: the JoinHandle is moved out of the slot at most once, by one of the
\* poll path and the destruction path, and exactly once as soon as the
\* ParallelFuture has been dropped.
C8_TakenExactlyOnce ==
    \A h \in Handles :
        /\ takenByPoll[h] + takenByDrop[h] <= 1
        /\ ph[h] = "dropped" => takenByPoll[h] + takenByDrop[h] = 1
        /\ ph[h] = "alive" =>
               (slot[h] = "Some" <=> takenByPoll[h] + takenByDrop[h] = 0)

\* C8 witness: the three paths at once: one handle polled to Ready then
\* dropped, the other dropped without a Ready poll.
C8_Witness ==
    /\ \E h \in Handles :
        ph[h] = "dropped" /\ result[h] = "ready" /\ takenByDrop[h] = 1
    /\ \E h \in Handles :
        ph[h] = "dropped" /\ result[h] # "ready" /\ takenByDrop[h] = 1

\* C9: once a race has resolved and the caller has left it, every handle of
\* the race has been dropped with one cancel request for its task; no task
\* of a dropped handle is left scheduled or running without one.
C9_RaceCancelsLosers ==
    mode = "race" =>
        /\ pc = "done" =>
              \A h \in Handles : ph[h] = "dropped" /\ cancelReq[h] = 1
        /\ \A h \in Handles :
              (ph[h] = "dropped" /\ task[h] \in {"scheduled", "running"}) =>
                  cancelReq[h] >= 1

\* C9 witness: a resolved race whose losing branch was never polled and is
\* still running, with its cancel requested.
C9_Witness ==
    /\ mode = "race" /\ pc = "done"
    /\ \E h \in Handles :
        /\ result[h] = "none" /\ task[h] = "running"
        /\ cancelReq[h] = 1 /\ ph[h] = "dropped"

\* C10: a cancel request exists for a task only if its ParallelFuture has
\* been dropped, and the only step that issues one is the drop of that very
\* handle: par() and poll issue none, and the drop of another handle none.
C10_CancelOnlyByOwnDrop ==
    /\ [](\A h \in Handles : cancelReq[h] > 0 => ph[h] = "dropped")
    /\ [][\A h \in Handles :
            cancelReq'[h] # cancelReq[h] =>
                /\ ph[h] = "alive" /\ ph'[h] = "dropped"
                /\ cancelReq'[h] = cancelReq[h] + 1]_vars

\* C10 witness: one handle dropped and cancelled while the other, polled,
\* is alive with no cancel request.
C10_Witness ==
    \E h, g \in Handles :
        /\ ph[h] = "dropped" /\ cancelReq[h] = 1
        /\ ph[g] = "alive" /\ polls[g] > 0 /\ cancelReq[g] = 0

\* C11: a ParallelFuture polled once and then forgotten never has a cancel
\* request issued for its task and keeps its JoinHandle, and under fair
\* scheduling of the workers its task runs on and completes.
C11_ForgottenTaskCompletes ==
    /\ [](\A h \in Handles :
            ph[h] = "forgotten" =>
                (cancelReq[h] = 0 /\ slot[h] = "Some"
                    /\ task[h] # "cancelled"))
    /\ \A h \in Handles :
          (ph[h] = "forgotten") ~>
              (task[h] = "completed" /\ output[h] = <<value[h]>>)

\* C11 witness: a handle forgotten after one Pending poll whose task has
\* completed with no cancel requested.
C11_Witness ==
    \E h \in Handles :
        /\ ph[h] = "forgotten" /\ result[h] = "pending" /\ polls[h] = 1
        /\ task[h] = "completed" /\ cancelReq[h] = 0

\* C12: dropping a ParallelFuture whose task has already finished panics
\* nowhere, delivers nothing to the caller and leaves the task completed
\* with its recorded output, in the drop step and ever after.
C12_CancelRaceBenign ==
    /\ [][\A h \in Handles :
            (ph[h] = "alive" /\ ph'[h] = "dropped"
                /\ task[h] = "completed") =>
                /\ task'[h] = "completed" /\ output'[h] = output[h]
                /\ got' = got /\ result' = result /\ out' = out
                /\ panicked' = FALSE]_vars
    /\ [](\A h \in Handles :
            (ph[h] = "dropped" /\ output[h] # <<>>) =>
                (task[h] = "completed" /\ output[h] = <<value[h]>>))

\* C12 witness: both cases at once: a finished task whose output was polled
\* out and one whose output never was, each with its handle dropped.
C12_Witness ==
    /\ panicked = FALSE
    /\ \E h \in Handles :
        /\ ph[h] = "dropped" /\ cancelReq[h] = 1 /\ result[h] = "ready"
        /\ task[h] = "completed" /\ output[h] = <<value[h]>>
    /\ \E h \in Handles :
        /\ ph[h] = "dropped" /\ cancelReq[h] = 1 /\ result[h] = "none"
        /\ task[h] = "completed" /\ output[h] = <<value[h]>>

C14_NoDoubleConsumption ==
    /\ panicked = FALSE
    /\ \A h \in Handles :
          ph[h] \in {"alive", "forgotten"} =>
              (slot[h] = "Some" /\ takenByPoll[h] + takenByDrop[h] = 0)

\* C14 witness: both unwraps executed on one handle: polled Pending, then
\* Ready, then dropped, with no panic.
C14_Witness ==
    /\ panicked = FALSE
    /\ \E h \in Handles :
        polls[h] >= 2 /\ result[h] = "ready" /\ ph[h] = "dropped"

\* C15: in a direct await or a join, where no handle is dropped before it
\* is Ready, a caller that got Pending from a handle is, under fair
\* scheduling, woken by the task and gets Ready with the output from a
\* later poll.
C15_PendingLeadsToReady ==
    \A h \in Handles :
        (mode \in {"await", "join"} /\ result[h] = "pending") ~>
            (woken[h] /\ result[h] = "ready" /\ got[h] = <<value[h]>>)

\* C15 witness: a direct await that was suspended on Pending, woken, and
\* then got Ready.
C15_Witness ==
    /\ mode = "await" /\ polls[1] = 2
    /\ woken[1] /\ result[1] = "ready" /\ got[1] = <<value[1]>>

\* C16: whenever the caller is to drop a ParallelFuture the drop can be
\* taken at once, whatever the state of its task, and the drop step leaves
\* the task as it was: it does not wait for the worker.
C16_DropNeverBlocks ==
    /\ [](\A h \in Handles :
            (pc = "cleanup" /\ ph[h] = "alive") => ENABLED Drop(h))
    /\ [][\A h \in Handles :
            (ph[h] = "alive" /\ ph'[h] = "dropped") =>
                (task' = task /\ output' = output /\ flag' = flag)]_vars

\* C16 witness: two drops have returned, one of a handle whose task is
\* still running and one of a handle whose task had finished.
C16_Witness ==
    /\ \E h \in Handles : ph[h] = "dropped" /\ task[h] = "running"
    /\ \E h \in Handles : ph[h] = "dropped" /\ task[h] = "completed"

\* C17: a poll that returns Pending leaves the slot, the cancel requests,
\* the spawned task and the handle's lifecycle as they were; the slot of a
\* constructed ParallelFuture changes only in a poll that returns Ready or
\* in its drop.
C17_PendingPollFrame ==
    [][\A h \in Handles :
        /\ (polls'[h] # polls[h] /\ result'[h] = "pending") =>
              /\ slot' = slot /\ cancelReq' = cancelReq
              /\ takenByPoll' = takenByPoll /\ takenByDrop' = takenByDrop
              /\ spawned' = spawned /\ task' = task /\ ph' = ph
        /\ (ph[h] # "uncreated" /\ slot'[h] # slot[h]) =>
              \/ ph[h] = "alive" /\ ph'[h] = "dropped"
              \/ result[h] # "ready" /\ result'[h] = "ready"]_vars

\* C17 witness: a handle polled Pending twice, its slot full and no cancel
\* requested.
C17_Witness ==
    \E h \in Handles :
        /\ polls[h] = 2 /\ result[h] = "pending" /\ ph[h] = "alive"
        /\ slot[h] = "Some" /\ cancelReq[h] = 0 /\ spawned[h] = 1

\* C18: the executor orders nothing between the tasks of different
\* handles: a scheduled task can be started and a running task can finish
\* whatever the state of the other tasks, so either of two tasks spawned
\* back to back can complete first.
C18_NoCompletionOrder ==
    \A h \in Handles :
        /\ task[h] = "scheduled" => ENABLED WorkerRun(h)
        /\ task[h] = "running" => ENABLED WorkerFinish(h)

\* C18 witness: the task of the handle created second has completed while
\* the task of the first has not started, neither handle polled.
C18_Witness ==
    /\ task[2] = "completed" /\ task[1] = "scheduled"
    /\ polls[1] = 0 /\ polls[2] = 0
    /\ ph[1] = "alive" /\ ph[2] = "alive"

====
